---------------------------- MODULE Spec2Model ----------------------------
(***************************************************************************)
(* Model of tools/gen_print_vga.py: the VGA print code generator.          *)
(*                                                                         *)
(* Text is a sequence of code points: a Python str of length n is a        *)
(* sequence of n naturals, a character is its code point (so the model     *)
(* has no separate ord), and string literals of the source are written    *)
(* out as code point tuples with the text in a comment beside them.        *)
(***************************************************************************)
EXTENDS Integers, Sequences, FiniteSets

VARIABLES pc, args, string, colour, out, it, ret, trace, cause

vars == <<pc, args, string, colour, out, it, ret, trace, cause>>

(***************************************************************************)
(* Bounds of the model.                                                    *)
(***************************************************************************)
\* longest input line typed at the "String > " prompt
MaxLen == 6
\* every string over the alphabet up to this length is an input
MaxFull == 2

\* "\n"
NL == 10

\* the characters typed: TAB (code point 9, below 16), "H", "i"
AlphabetSeq == <<9, 72, 105>>

Alphabet == {AlphabetSeq[k] : k \in 1..Len(AlphabetSeq)}

\* the string of length n that cycles through the alphabet from position k
Rot(k, n) == [i \in 1..n |-> AlphabetSeq[((k + i) % Len(AlphabetSeq)) + 1]]

\* the lines typed at the "String > " prompt: input() returns the line
\* without its newline, so no line holds NL
Strings ==
    UNION {[1..n -> Alphabet] : n \in 0..MaxFull}
    \cup {Rot(k, n) : k \in 1..Len(AlphabetSeq), n \in (MaxFull + 1)..MaxLen}

\* the lines typed at the "Colour (Hex) > " prompt: "2", "1f", "" and "zz"
Colours == {<<50>>, <<49, 102>>, <<>>, <<122, 122>>}

(***************************************************************************)
(* Python built-ins used by the script.                                    *)
(***************************************************************************)
\* one lowercase hexadecimal digit
HexDigit(d) == IF d < 10 THEN 48 + d ELSE 87 + d

RECURSIVE HexDigits(_)
HexDigits(n) ==
    IF n < 16 THEN <<HexDigit(n)>>
    ELSE HexDigits(n \div 16) \o <<HexDigit(n % 16)>>

\* hex(n): "0x" and the lowercase hexadecimal digits of n
hex(n) == <<48, 120>> \o HexDigits(n)

RECURSIVE DecDigits(_)
DecDigits(n) ==
    IF n < 10 THEN <<48 + n>>
    ELSE DecDigits(n \div 10) \o <<48 + (n % 10)>>

\* str(n) of a non-negative int, as str.format renders an int argument
str(n) == DecDigits(n)

\* s[2:]
SliceFrom2(s) == SubSeq(s, 3, Len(s))

\* fmt.format(*fmtargs) for replacement fields "{d}" with one digit d;
\* the arguments are inserted as they are and not scanned again
RECURSIVE Format(_, _)
Format(fmt, fmtargs) ==
    IF fmt = <<>> THEN <<>>
    ELSE IF fmt[1] = 123
         THEN fmtargs[(fmt[2] - 48) + 1] \o Format(SubSeq(fmt, 4, Len(fmt)), fmtargs)
         ELSE <<fmt[1]>> \o Format(Tail(fmt), fmtargs)

\* range(1, n + 1): counting from one
range_from_one(n) == [k \in 1..n |-> k]

\* range(n)
range(n) == [k \in 1..n |-> k - 1]

\* a zip that stops one pair early
zip_short(a, b) ==
    [k \in 1..((IF Len(a) < Len(b) THEN Len(a) ELSE Len(b)) - 1) |-> <<a[k], b[k]>>]

\* zip(a, b): pairs up to the shorter argument
zip(a, b) ==
    [k \in 1..(IF Len(a) < Len(b) THEN Len(a) ELSE Len(b)) |-> <<a[k], b[k]>>]

(***************************************************************************)
(* hex_letter and the pieces of gen_asm.                                   *)
(***************************************************************************)
\* hex_letter without the [2:] slice
hex_letter_keep_prefix(letter, attr) ==
    Format(<<48, 120, 48, 123, 48, 125, 123, 49, 125>>, <<attr, hex(letter)>>)

\* hex_letter falling back to the attribute "07" for a colour that is not
\* two hexadecimal digits
hex_letter_default_colour(letter, attr) ==
    Format(<<48, 120, 48, 123, 48, 125, 123, 49, 125>>,
           <<IF Len(attr) = 2
                 /\ \A i \in 1..Len(attr) :
                        attr[i] \in (48..57) \cup (97..102) \cup (65..70)
             THEN attr ELSE <<48, 55>>,
             SliceFrom2(hex(letter))>>)

\* "0x0{0}{1}".format(colour, hex(ord(letter))[2:])
\* (the parameter colour is written attr: colour is the variable of gen_asm)
hex_letter(letter, attr) ==
    Format(<<48, 120, 48, 123, 48, 125, 123, 49, 125>>,
           <<attr, SliceFrom2(hex(letter))>>)

\* "mov word [0xb8000 +  {0}], {1} ; {2}\n"
FmtPadded ==
    <<109, 111, 118, 32, 119, 111, 114, 100, 32, 91, 48, 120, 98, 56, 48, 48,
      48, 32, 43, 32, 32, 123, 48, 125, 93, 44, 32, 123, 49, 125, 32, 59, 32,
      123, 50, 125, 10>>

\* "mov word [0xb8000 + {0}], {1} ; {2}\n"
FmtPlain ==
    <<109, 111, 118, 32, 119, 111, 114, 100, 32, 91, 48, 120, 98, 56, 48, 48,
      48, 32, 43, 32, 123, 48, 125, 93, 44, 32, 123, 49, 125, 32, 59, 32,
      123, 50, 125, 10>>

\* the test written on the index instead of the offset
fmt_str_index_below_ten(index) == IF index < 10 THEN FmtPadded ELSE FmtPlain

\* the format strings without their final newline
fmt_str_no_newline(index) ==
    IF 2 * index < 10
    THEN SubSeq(FmtPadded, 1, Len(FmtPadded) - 1)
    ELSE SubSeq(FmtPlain, 1, Len(FmtPlain) - 1)

\* the if/else that picks fmt_str
fmt_str(index) == IF 2 * index < 10 THEN FmtPadded ELSE FmtPlain

\* "String > "
PromptStringText == <<83, 116, 114, 105, 110, 103, 32, 62, 32>>

\* "Colour (Hex) > "
PromptColourText ==
    <<67, 111, 108, 111, 117, 114, 32, 40, 72, 101, 120, 41, 32, 62, 32>>

(***************************************************************************)
(* The program: while True: print(gen_asm(input(..), input(..))).          *)
(* pc is the position in that expression; args holds the argument values   *)
(* already evaluated; string, colour, out and it are the frame of gen_asm  *)
(* (it counts the pairs the for loop has taken from zip); ret is the       *)
(* value returned; trace is the console traffic of the current iteration;  *)
(* cause tells how the process ended.                                      *)
(***************************************************************************)
Init ==
    /\ pc = "prompt_string"
    /\ args = <<>>
    /\ string = <<>>
    /\ colour = <<>>
    /\ out = <<>>
    /\ it = 0
    /\ ret = <<>>
    /\ trace = <<>>
    /\ cause = "none"

\* input("String > ") writes its prompt; a new iteration starts here
PromptString ==
    /\ pc = "prompt_string"
    /\ pc' = "read_string"
    /\ trace' = <<[ev |-> "prompt", text |-> PromptStringText]>>
    /\ UNCHANGED <<args, string, colour, out, it, ret, cause>>

\* input("String > ") returns the line read
ReadString ==
    /\ pc = "read_string"
    /\ \E line \in Strings :
          /\ args' = <<line>>
          /\ trace' = Append(trace, [ev |-> "read", text |-> line])
    /\ pc' = "prompt_colour"
    /\ UNCHANGED <<string, colour, out, it, ret, cause>>

\* input("Colour (Hex) > ") writes its prompt
PromptColour ==
    /\ pc = "prompt_colour"
    /\ pc' = "read_colour"
    /\ trace' = Append(trace, [ev |-> "prompt", text |-> PromptColourText])
    /\ UNCHANGED <<args, string, colour, out, it, ret, cause>>

\* input("Colour (Hex) > ") returns the line read
ReadColour ==
    /\ pc = "read_colour"
    /\ \E line \in Colours :
          /\ args' = Append(args, line)
          /\ trace' = Append(trace, [ev |-> "read", text |-> line])
    /\ pc' = "call"
    /\ UNCHANGED <<string, colour, out, it, ret, cause>>

\* gen_asm entered without out = "": out keeps the text of the last call
Call_keep_out ==
    /\ pc = "call"
    /\ string' = args[1]
    /\ colour' = args[2]
    /\ args' = <<>>
    /\ it' = 0
    /\ pc' = "loop"
    /\ UNCHANGED <<out, ret, trace, cause>>

\* gen_asm entered with its two arguments exchanged
Call_swapped ==
    /\ pc = "call"
    /\ string' = args[2]
    /\ colour' = args[1]
    /\ args' = <<>>
    /\ out' = <<>>
    /\ it' = 0
    /\ pc' = "loop"
    /\ UNCHANGED <<ret, trace, cause>>

\* gen_asm is entered: the parameters are bound, out = "", the for loop
\* obtains its iterator
Call ==
    /\ pc = "call"
    /\ string' = args[1]
    /\ colour' = args[2]
    /\ args' = <<>>
    /\ out' = <<>>
    /\ it' = 0
    /\ pc' = "loop"
    /\ UNCHANGED <<ret, trace, cause>>

\* one pass of the for body
LoopBody ==
    /\ pc = "loop"
    /\ it < Len(zip(string, range(Len(string))))
    /\ LET pair == zip(string, range(Len(string)))[it + 1]
           letter == pair[1]
           index == pair[2]
           code == hex_letter(letter, colour)
       IN out' = out \o Format(fmt_str(index), <<str(2 * index), code, <<letter>>>>)
    /\ it' = it + 1
    /\ UNCHANGED <<pc, args, string, colour, ret, trace, cause>>

\* the iterator is exhausted: return out
Return ==
    /\ pc = "loop"
    /\ it >= Len(zip(string, range(Len(string))))
    /\ ret' = out
    /\ pc' = "print"
    /\ UNCHANGED <<args, string, colour, out, it, trace, cause>>

\* print without the enclosing while True: the script ends after one block
PrintBlock_once ==
    /\ pc = "print"
    /\ trace' = Append(trace, [ev |-> "write", text |-> ret \o <<NL>>])
    /\ ret' = <<>>
    /\ pc' = "terminated"
    /\ UNCHANGED <<args, string, colour, out, it, cause>>

\* print(...) writes the value and a newline; while True loops
PrintBlock ==
    /\ pc = "print"
    /\ trace' = Append(trace, [ev |-> "write", text |-> ret \o <<NL>>])
    /\ ret' = <<>>
    /\ pc' = "prompt_string"
    /\ UNCHANGED <<args, string, colour, out, it, cause>>

\* end of input during a read: input() raises EOFError, nothing catches it
EndOfInput ==
    /\ pc \in {"read_string", "read_colour"}
    /\ pc' = "terminated"
    /\ cause' = "eof"
    /\ UNCHANGED <<args, string, colour, out, it, ret, trace>>

\* KeyboardInterrupt, at any point, nothing catches it
Interrupt ==
    /\ pc # "terminated"
    /\ pc' = "terminated"
    /\ cause' = "interrupt"
    /\ UNCHANGED <<args, string, colour, out, it, ret, trace>>

\* the steps the interpreter takes without waiting for the console
Internal ==
    PromptString \/ PromptColour \/ Call \/ LoopBody \/ Return \/ PrintBlock

Next ==
    \/ PromptString
    \/ ReadString
    \/ PromptColour
    \/ ReadColour
    \/ Call
    \/ LoopBody
    \/ Return
    \/ PrintBlock
    \/ EndOfInput
    \/ Interrupt

Spec == Init /\ [][Next]_vars

\* the interpreter keeps running the program
LiveSpec == Init /\ [][Next]_vars /\ WF_vars(Internal)

(***************************************************************************)
(* Reading the generated text back: what an assembler, or a person, sees   *)
(* in the output.                                                          *)
(***************************************************************************)
\* position of the first c in t, 0 if there is none
FirstIndex(t, c) ==
    IF \E i \in 1..Len(t) : t[i] = c
    THEN CHOOSE i \in 1..Len(t) : t[i] = c /\ \A j \in 1..(i - 1) : t[j] # c
    ELSE 0

\* position of the last c in t, 0 if there is none
LastIndex(t, c) ==
    IF \E i \in 1..Len(t) : t[i] = c
    THEN CHOOSE i \in 1..Len(t) : t[i] = c /\ \A j \in (i + 1)..Len(t) : t[j] # c
    ELSE 0

\* the lines of t: the pieces between newlines, a text after the last
\* newline being a line too unless it is empty
RECURSIVE SplitLines(_)
SplitLines(t) ==
    IF t = <<>> THEN <<>>
    ELSE LET p == FirstIndex(t, NL)
         IN IF p = 0 THEN <<t>>
            ELSE <<SubSeq(t, 1, p - 1)>> \o SplitLines(SubSeq(t, p + 1, Len(t)))

NewlineCount(t) == Cardinality({i \in 1..Len(t) : t[i] = NL})

IsDigits(t) == t # <<>> /\ \A i \in 1..Len(t) : t[i] \in 48..57

IsLowerHex(t) == t # <<>> /\ \A i \in 1..Len(t) : t[i] \in (48..57) \cup (97..102)

IsHex(t) ==
    t # <<>> /\ \A i \in 1..Len(t) : t[i] \in (48..57) \cup (97..102) \cup (65..70)

\* value of one hexadecimal digit, either case
HexDigitValue(c) ==
    IF c \in 48..57 THEN c - 48 ELSE IF c \in 97..102 THEN c - 87 ELSE c - 55

RECURSIVE HexValue(_)
HexValue(t) ==
    IF t = <<>> THEN 0
    ELSE 16 * HexValue(SubSeq(t, 1, Len(t) - 1)) + HexDigitValue(t[Len(t)])

RECURSIVE DecValue(_)
DecValue(t) ==
    IF t = <<>> THEN 0
    ELSE 10 * DecValue(SubSeq(t, 1, Len(t) - 1)) + (t[Len(t)] - 48)

\* "mov word "
MovWord == <<109, 111, 118, 32, 119, 111, 114, 100, 32>>

\* "[0xb8000 +"
BracketHead == <<91, 48, 120, 98, 56, 48, 48, 48, 32, 43>>

\* the bracket expression of an instruction line, "[" to the first "]"
Bracket(l) == SubSeq(l, Len(MovWord) + 1, FirstIndex(l, 93))

\* the offset printed in the bracket expression: what follows its last space
OffsetText(l) ==
    LET b == Bracket(l) IN SubSeq(b, LastIndex(b, 32) + 1, Len(b) - 1)

\* the spaces between "+" and the offset
Padding(l) ==
    LET b == Bracket(l)
    IN SubSeq(b, Len(BracketHead) + 1, Len(b) - 1 - Len(OffsetText(l)))

\* the operand of an instruction line: between "], " and " ; <char>"
Operand(l) == SubSeq(l, FirstIndex(l, 93) + 3, Len(l) - 4)

\* the lines of the value gen_asm has returned
RetLines == SplitLines(ret)

\* gen_asm has returned and print has not yet consumed the value
Returned == pc = "print"

\* an iteration of the loop is complete: its block is on the console
Printed == pc = "prompt_string" /\ Len(trace) = 5

(***************************************************************************)
(* C1: gen_asm(s, colour) emits exactly Len(s) instruction lines, and the  *)
(* k-th line ends with the comment "; " and the k-th character of s; the   *)
(* empty string yields the empty output.                                   *)
(***************************************************************************)
OneLinePerCharacter ==
    Returned =>
        /\ Len(RetLines) = Len(string)
        /\ \A k \in 1..Len(string) :
              LET l == RetLines[k]
              IN /\ Len(l) >= 4
                 /\ SubSeq(l, Len(l) - 3, Len(l)) = <<32, 59, 32, string[k]>>
        /\ (string = <<>> => ret = <<>>)

OneLinePerCharacterWitness ==
    /\ Returned
    /\ Len(string) >= 3
    /\ string[1] # string[2]
    /\ Len(RetLines) = Len(string)

(***************************************************************************)
(* C2: the offset printed in the bracket expression of the i-th line       *)
(* (0-based) is the decimal number 2*i: offsets start at 0 and grow by 2.  *)
(***************************************************************************)
OffsetIsTwiceIndex ==
    Returned =>
        \A k \in 1..Len(RetLines) :
            /\ IsDigits(OffsetText(RetLines[k]))
            /\ DecValue(OffsetText(RetLines[k])) = 2 * (k - 1)
            /\ (k > 1 => DecValue(OffsetText(RetLines[k]))
                           = DecValue(OffsetText(RetLines[k - 1])) + 2)

OffsetIsTwiceIndexWitness ==
    /\ Returned
    /\ Len(RetLines) >= 6
    /\ OffsetText(RetLines[6]) = <<49, 48>>

(***************************************************************************)
(* C3: the operand of the i-th line is the value of hex_letter: "0x0",     *)
(* then the colour text, then the lowercase hexadecimal code point of the  *)
(* i-th character without "0x"; "Hi" with colour "2" gives 0x0248 and      *)
(* 0x0269.                                                                 *)
(***************************************************************************)
OperandIsColourThenHex ==
    Returned =>
        /\ \A k \in 1..Len(RetLines) :
              LET op == Operand(RetLines[k])
                  h == SubSeq(op, 4 + Len(colour), Len(op))
              IN /\ k <= Len(string)
                 /\ op = hex_letter(string[k], colour)
                 /\ SubSeq(op, 1, 3) = <<48, 120, 48>>
                 /\ SubSeq(op, 4, 3 + Len(colour)) = colour
                 /\ IsLowerHex(h)
                 /\ HexValue(h) = string[k]
        /\ (string = <<72, 105>> /\ colour = <<50>>
              => /\ Len(RetLines) = 2
                 /\ Operand(RetLines[1]) = <<48, 120, 48, 50, 52, 56>>
                 /\ Operand(RetLines[2]) = <<48, 120, 48, 50, 54, 57>>)

OperandIsColourThenHexWitness ==
    /\ Returned
    /\ string = <<72, 105>>
    /\ colour = <<50>>
    /\ Len(RetLines) = 2

(***************************************************************************)
(* C4: the i-th line (0-based) has two spaces between "+" and the offset   *)
(* exactly when i < 5, that is when the offset is below 10, and one space  *)
(* exactly when i >= 5.                                                    *)
(***************************************************************************)
PaddedBelowTen ==
    Returned =>
        \A k \in 1..Len(RetLines) :
            LET l == RetLines[k]
            IN /\ SubSeq(Bracket(l), 1, Len(BracketHead)) = BracketHead
               /\ IsDigits(OffsetText(l))
               /\ Padding(l) \in {<<32, 32>>, <<32>>}
               /\ (Padding(l) = <<32, 32>> <=> k - 1 < 5)
               /\ (Padding(l) = <<32>> <=> k - 1 >= 5)
               /\ (Padding(l) = <<32, 32>> <=> DecValue(OffsetText(l)) < 10)

PaddedBelowTenWitness ==
    /\ Returned
    /\ Len(RetLines) >= 6
    /\ Padding(RetLines[5]) = <<32, 32>>
    /\ Padding(RetLines[6]) = <<32>>

(***************************************************************************)
(* C5, as claimed: for n >= 1 characters the value returned has a newline  *)
(* between consecutive lines only: n - 1 newlines, none at the end.        *)
(***************************************************************************)
NewlineJoined ==
    (Returned /\ Len(string) >= 1) =>
        /\ NewlineCount(ret) = Len(string) - 1
        /\ ret[Len(ret)] # NL

(***************************************************************************)
(* C5, amended: for n >= 1 characters the value returned is the n lines,   *)
(* each followed by a newline: n newlines, the last character a newline.   *)
(***************************************************************************)
NewlineTerminated ==
    (Returned /\ Len(string) >= 1) =>
        /\ NewlineCount(ret) = Len(string)
        /\ Len(RetLines) = Len(string)
        /\ ret # <<>>
        /\ ret[Len(ret)] = NL

NewlineTerminatedWitness ==
    /\ Returned
    /\ Len(string) >= 2
    /\ NewlineCount(ret) = Len(string)

(***************************************************************************)
(* C6: for a character with code point in 0..255 and a colour of two hex   *)
(* digits the operand is a 16-bit number equal to 256 * attribute + code   *)
(* point: low byte the character, high byte the attribute.                 *)
(***************************************************************************)
OperandIsVgaCell ==
    (/\ Returned
     /\ Len(colour) = 2
     /\ IsHex(colour)
     /\ \A k \in 1..Len(string) : string[k] \in 0..255) =>
        \A k \in 1..Len(RetLines) :
            LET v == HexValue(SliceFrom2(Operand(RetLines[k])))
            IN /\ k <= Len(string)
               /\ v < 65536
               /\ v = 256 * HexValue(colour) + string[k]
               /\ v % 256 = string[k]
               /\ v \div 256 = HexValue(colour)

(***************************************************************************)
(* C7: the block printed in an iteration is a fixed function of the two    *)
(* lines read in that iteration: nothing left in out, it, string, colour,  *)
(* args or ret by earlier iterations reaches it.                           *)
(***************************************************************************)
\* the instruction for character c at index i with colour a
LineOf(c, i, a) ==
    MovWord \o BracketHead \o (IF i < 5 THEN <<32, 32>> ELSE <<32>>) \o str(2 * i)
    \o <<93, 44, 32>> \o hex_letter(c, a) \o <<32, 59, 32, c, NL>>

RECURSIVE LinesFrom(_, _, _)
LinesFrom(s, i, a) ==
    IF i >= Len(s) THEN <<>>
    ELSE LineOf(s[i + 1], i, a) \o LinesFrom(s, i + 1, a)

\* what the console shows for the lines s and a
BlockOf(s, a) == LinesFrom(s, 0, a) \o <<NL>>

BlockDependsOnOwnLines ==
    Printed => trace[5].text = BlockOf(trace[2].text, trace[4].text)

\* a second or later iteration whose lines differ from those of the
\* iteration before it (whose text is still in out)
BlockDependsOnOwnLinesWitness ==
    /\ Printed
    /\ trace[2].text = <<72, 105>>
    /\ trace[4].text = <<49, 102>>
    /\ trace[5].text = BlockOf(<<72, 105>>, <<49, 102>>)

(***************************************************************************)
(* C8: no input is rejected: for every string and every colour line read,  *)
(* empty or not a hex byte included, gen_asm returns its lines and the     *)
(* colour text stands verbatim in every operand; the process has not       *)
(* ended.                                                                  *)
(***************************************************************************)
NoInputRejected ==
    Returned =>
        /\ cause = "none"
        /\ string = trace[2].text
        /\ colour = trace[4].text
        /\ Len(RetLines) = Len(trace[2].text)
        /\ \A k \in 1..Len(RetLines) :
              LET op == Operand(RetLines[k])
              IN /\ Len(op) >= 3 + Len(trace[4].text)
                 /\ SubSeq(op, 4, 3 + Len(trace[4].text)) = trace[4].text
        /\ ENABLED PrintBlock

NoInputRejectedWitness ==
    /\ Returned
    /\ ~ IsHex(colour)
    /\ colour # <<>>
    /\ Len(RetLines) >= 1

(***************************************************************************)
(* C9: in every iteration the console traffic is: prompt "String > ", one  *)
(* line read, prompt "Colour (Hex) > ", one line read, one block written;  *)
(* nothing is written before both lines are read; the first line is the    *)
(* text and the second the colour.                                         *)
(***************************************************************************)
ConsoleOrder ==
    /\ Len(trace) <= 5
    /\ \A i \in 1..Len(trace) :
          /\ (i = 1 => trace[i].ev = "prompt" /\ trace[i].text = PromptStringText)
          /\ (i = 2 => trace[i].ev = "read")
          /\ (i = 3 => trace[i].ev = "prompt" /\ trace[i].text = PromptColourText)
          /\ (i = 4 => trace[i].ev = "read")
          /\ (i = 5 => trace[i].ev = "write")
    /\ (pc = "read_string" => Len(trace) = 1)
    /\ (pc = "prompt_colour" => Len(trace) = 2)
    /\ (pc = "read_colour" => Len(trace) = 3)
    /\ (pc \in {"call", "loop", "print"} => Len(trace) = 4)
    /\ (pc = "prompt_string" => Len(trace) \in {0, 5})
    /\ (pc \in {"loop", "print"} \/ Printed
          => string = trace[2].text /\ colour = trace[4].text)

ConsoleOrderWitness ==
    /\ Printed
    /\ trace[2].text = <<72, 105>>
    /\ trace[4].text = <<50>>
    /\ string = <<72, 105>>
    /\ colour = <<50>>

(***************************************************************************)
(* C10: the loop never stops on its own: the process ends only by an       *)
(* interrupt or by end of input during a read, print is followed by the    *)
(* next iteration, and every printed block is followed by a new            *)
(* "String > " prompt unless the process is interrupted.                   *)
(***************************************************************************)
LoopNeverStops ==
    /\ [][pc' = "terminated" /\ pc # "terminated"
            => \/ cause' = "interrupt"
               \/ cause' = "eof" /\ pc \in {"read_string", "read_colour"}]_vars
    /\ [][pc = "print" /\ cause' # "interrupt" => pc' = "prompt_string"]_vars
    /\ (Printed ~> (pc = "read_string" \/ cause = "interrupt"))

\* the prompt of a later iteration: the text of the one before is still in out
LoopNeverStopsWitness ==
    /\ pc = "read_string"
    /\ Len(trace) = 1
    /\ trace[1].text = PromptStringText
    /\ out # <<>>

=============================================================================
